---- MODULE Spec2Model ----
(***************************************************************************)
(* A model of the jobhunt pipeline: JobFetcher (fetch, normalise,          *)
(* deduplicate), JobFilter and JobRanker.                                  *)
(*                                                                         *)
(* Text is a sequence of one-character strings so that str.lower(),        *)
(* str.strip() and the substring test `a in b` are computed, not assumed.  *)
(* A Python dict is a function whose DOMAIN is the set of keys present.    *)
(* A value that may be None is tagged: None, or Num(n) for a number.       *)
(***************************************************************************)
EXTENDS Naturals, Integers, Sequences, FiniteSets, TLC

VARIABLES
    jobs,        \* JobFetcher.jobs
    returned,    \* the list returned by the last JobFetcher operation
    prevJobs,    \* JobFetcher.jobs on entry to the last deduplicate_jobs call
    dedupeRuns,  \* number of deduplicate_jobs calls made so far
    user_profile,\* JobRanker.user_profile
    rjobs,       \* the list object handed to rank_jobs (its dicts are shared with the caller)
    rankInput,   \* the value of that list when rank_jobs was entered
    rankedIdx,   \* ranked_jobs, as the positions of rjobs it refers to
    rankRan,     \* rank_jobs has returned
    criteria,    \* JobFilter.criteria
    fjobs,       \* the list handed to filter_jobs
    filteredIdx, \* filtered_jobs, as the positions of fjobs it refers to
    total_processed, \* JobFilter.total_processed
    filtered_count,  \* JobFilter.filtered_count
    filterRan,   \* filter_jobs has returned
    filterRaised,\* filter_jobs has raised
    sources,     \* JobFetcher.sources
    session,     \* JobFetcher.session: "none", or a ClientSession that is "open" or "closed"
    fpc,         \* where the fetch_jobs call stands: "idle", "gathering", "closing", "done" (returned), "failed" (raised)
    owns,        \* the fetch_jobs call entered `async with self`
    tasks,       \* the coroutines handed to asyncio.gather, in order
    errors,      \* the sources named by the "Error fetching from" log lines of the run
    deadlinePassed, \* the caller's overall deadline elapsed while the run was gathering
    fetchRuns,   \* number of fetch_jobs calls started
    other,       \* a second fetch_jobs invocation on the same JobFetcher: its position, tasks and result
    keywords,    \* the keywords argument of the fetch_jobs call
    script,      \* what the job boards answer, when a scenario fixes it
    rawRecord,   \* the record handed to parse_job_listing
    parsed       \* what that parse_job_listing call gave: None before it, Dict(listing), or Text("raised")

dedupeVars == <<jobs, returned, prevJobs, dedupeRuns>>
rankVars == <<user_profile, rjobs, rankInput, rankedIdx, rankRan>>
filterVars == <<criteria, fjobs, filteredIdx, total_processed, filtered_count, filterRan,
                filterRaised>>

fetchVars == <<sources, session, fpc, owns, tasks, errors, deadlinePassed, fetchRuns, other>>

queryVars == <<keywords, script>>
normVars == <<rawRecord, parsed>>

vars == <<dedupeVars, rankVars, filterVars, fetchVars, queryVars, normVars>>

----------------------------------------------------------------------------
(* Bounds of the model                                                     *)

MaxJobs == 3          \* longest job list handed to deduplicate_jobs
MaxDedupeRuns == 2    \* deduplicate_jobs calls in one behaviour
MaxRankJobs == 3      \* longest job list handed to rank_jobs
MaxFilterJobs == 2    \* longest job list handed to filter_jobs
MaxRecords == 1       \* most records in one source response
MaxFetchRuns == 2     \* fetch_jobs calls in one behaviour

----------------------------------------------------------------------------
(* Text                                                                    *)

\* str.lower() on one character of the alphabet the model uses
LowerChar(c) ==
    CASE c = "D" -> "d"
      [] c = "C" -> "c"
      [] c = "R" -> "r"
      [] c = "N" -> "n"
      [] c = "P" -> "p"
      [] c = "M" -> "m"
      [] c = "L" -> "l"
      [] c = "E" -> "e"
      [] c = "T" -> "t"
      [] c = "O" -> "o"
      [] OTHER -> c

\* str.lower()
Lower(s) == [i \in 1..Len(s) |-> LowerChar(s[i])]

\* str.strip(): drop leading and trailing blanks
RECURSIVE Trim(_)
Trim(s) ==
    IF s = <<>> THEN s
    ELSE IF Head(s) = " " THEN Trim(Tail(s))
    ELSE IF s[Len(s)] = " " THEN Trim(SubSeq(s, 1, Len(s) - 1))
    ELSE s

\* None, and a number, as values of a dict
None == [t |-> "none", v |-> 0]
Num(n) == [t |-> "num", v |-> n]

\* a string, and a dict, where a value of another type may stand
Text(s) == [t |-> "str", v |-> s]
Dict(f) == [t |-> "dict", v |-> f]

\* dict.get(key, default)
Get(d, key, default) == IF key \in DOMAIN d THEN d[key] ELSE default

----------------------------------------------------------------------------
(* JobFetcher.deduplicate_jobs                                             *)

\* the key deduplicate_jobs builds for one job
DedupeKey(job) ==
    <<Get(job, "title", <<>>), Get(job, "company", <<>>), Get(job, "location", <<>>)>>

\* a loop that forgets a key again when it meets its duplicate
RECURSIVE DedupeLoopToggle(_, _, _, _)
DedupeLoopToggle(js, i, seen, unique_jobs) ==
    IF i > Len(js) THEN unique_jobs
    ELSE LET key == DedupeKey(js[i]) IN
         IF key \notin seen
         THEN DedupeLoopToggle(js, i + 1, seen \cup {key}, Append(unique_jobs, js[i]))
         ELSE DedupeLoopToggle(js, i + 1, seen \ {key}, unique_jobs)

\* the for loop of deduplicate_jobs, from index i on
RECURSIVE DedupeLoop(_, _, _, _)
DedupeLoop(js, i, seen, unique_jobs) ==
    IF i > Len(js) THEN unique_jobs
    ELSE LET key == DedupeKey(js[i]) IN
         IF key \notin seen
         THEN DedupeLoop(js, i + 1, seen \cup {key}, Append(unique_jobs, js[i]))
         ELSE DedupeLoop(js, i + 1, seen, unique_jobs)

UniqueJobsToggle(js) == DedupeLoopToggle(js, 1, {}, <<>>)

\* the list deduplicate_jobs computes from self.jobs
UniqueJobs(js) == DedupeLoop(js, 1, {}, <<>>)

\* deduplicate_jobs(): self.jobs = unique_jobs; return unique_jobs
deduplicate_jobs ==
    /\ dedupeRuns < MaxDedupeRuns
    /\ prevJobs' = jobs
    /\ jobs' = UniqueJobs(jobs)
    /\ returned' = UniqueJobs(jobs)
    /\ dedupeRuns' = dedupeRuns + 1
    /\ UNCHANGED <<queryVars, normVars, rankVars, filterVars, fetchVars>>

----------------------------------------------------------------------------
(* Job lists handed to the deduplicator                                    *)

TitlePool == { <<"d","e","v">>, <<"D","e","v">>, <<"q","a">> }
CompanyPool == { <<"c","o">>, <<"c","o"," ">> }
LocationPool == { <<"n","y">>, <<>> }

\* job dicts with and without a "location" key
DedupeJobPool ==
    [title : TitlePool, company : CompanyPool, location : LocationPool]
    \cup [title : TitlePool, company : CompanyPool]

SeqsUpTo(S, n) == UNION { [1..k -> S] : k \in 0..n }

\* a JobRanker that has ranked nothing
RankIdle ==
    /\ user_profile = [skills |-> <<>>]
    /\ rjobs = <<>>
    /\ rankInput = <<>>
    /\ rankedIdx = <<>>
    /\ rankRan = FALSE

\* FilterCriteria(): the dataclass defaults
DefaultCriteria ==
    [ required_skills |-> <<>>, preferred_skills |-> <<>>, locations |-> <<>>,
      remote_only |-> FALSE, min_salary |-> None, max_salary |-> None,
      experience_min |-> None, experience_max |-> None, job_types |-> <<>>,
      company_blacklist |-> <<>>, company_whitelist |-> <<>>,
      posted_within_days |-> None, keywords |-> <<>>, exclude_keywords |-> <<>> ]

\* a JobFilter that has filtered nothing
FilterIdle ==
    /\ criteria = DefaultCriteria
    /\ fjobs = <<>>
    /\ filteredIdx = <<>>
    /\ total_processed = 0
    /\ filtered_count = 0
    /\ filterRan = FALSE
    /\ filterRaised = FALSE

\* no second fetch_jobs invocation has been made
NoOther ==
    [ fpc |-> "idle", owns |-> FALSE, tasks |-> <<>>, errors |-> <<>>, returned |-> <<>> ]

\* JobFetcher(): the default sources, no session, no call under way
FetchIdle ==
    /\ sources = <<"linkedin", "indeed", "glassdoor">>
    /\ session = "none"
    /\ fpc = "idle"
    /\ owns = FALSE
    /\ tasks = <<>>
    /\ errors = <<>>
    /\ deadlinePassed = FALSE
    /\ fetchRuns = 0
    /\ other = NoOther

\* a fetch_jobs call with an ordinary query, against job boards that answer
\* as they please
QueryIdle ==
    /\ keywords = <<"d","e","v">>
    /\ script = [on |-> FALSE, data |-> <<>>]

\* parse_job_listing has not been called on its own
NormIdle ==
    /\ rawRecord = None
    /\ parsed = None

\* a JobFetcher that holds no jobs
DedupeIdle ==
    /\ jobs = <<>>
    /\ returned = <<>>
    /\ prevJobs = <<>>
    /\ dedupeRuns = 0

DedupeInit ==
    /\ jobs \in SeqsUpTo(DedupeJobPool, MaxJobs)
    /\ returned = <<>>
    /\ prevJobs = <<>>
    /\ dedupeRuns = 0
    /\ RankIdle
    /\ FilterIdle
    /\ FetchIdle
    /\ QueryIdle
    /\ NormIdle

DedupeNext == deduplicate_jobs

SpecDedupe == DedupeInit /\ [][DedupeNext]_vars

----------------------------------------------------------------------------
(* The identity key of the data model                                      *)

IdentityKey(job) ==
    << Lower(Trim(Get(job, "title", <<>>))),
       Lower(Trim(Get(job, "company", <<>>))),
       Lower(Trim(Get(job, "location", <<>>))) >>

\* the positions of js holding the first occurrence of their identity key
FirstOccurrences(js) ==
    { i \in 1..Len(js) :
        \A j \in 1..(i - 1) : IdentityKey(js[j]) # IdentityKey(js[i]) }

RECURSIVE Pick(_, _, _)
Pick(js, keep, i) ==
    IF i > Len(js) THEN <<>>
    ELSE IF i \in keep THEN <<js[i]>> \o Pick(js, keep, i + 1)
    ELSE Pick(js, keep, i + 1)

----------------------------------------------------------------------------
(* Claims about deduplicate_jobs                                           *)

\* C1: after deduplicate_jobs no two listings of the output have the same
\* identity key (lowercase(trim(title)), lowercase(trim(company)),
\* lowercase(trim(location))).
C1_NoTwoSameIdentity ==
    dedupeRuns >= 1 =>
        \A i, j \in 1..Len(returned) :
            i # j => IdentityKey(returned[i]) # IdentityKey(returned[j])

\* C2: the output of deduplicate_jobs is the subsequence of its input made of
\* the first occurrence of each identity key, in input order.
C2_FirstOccurrenceSubsequence ==
    dedupeRuns >= 1 =>
        returned = Pick(prevJobs, FirstOccurrences(prevJobs), 1)

\* C3: deduplicate_jobs is idempotent: a second run leaves self.jobs and the
\* returned list as the first run left them.
C3_Idempotent ==
    dedupeRuns >= 2 => (jobs = prevJobs /\ returned = prevJobs)

\* C3 witness: a second run took place on a list of two survivors
C3_Witness ==
    /\ dedupeRuns = 2
    /\ Len(jobs) = 2
    /\ jobs = prevJobs

----------------------------------------------------------------------------
(* JobRanker                                                               *)

\* the substring test `sub in s`
Contains(sub, s) ==
    \E i \in 0..(Len(s) - Len(sub)) : SubSeq(s, i + 1, i + Len(sub)) = sub

\* the elements of a list, as a set
Elems(s) == { s[i] : i \in 1..Len(s) }

\* Python truth of a value that is None or a number: None and 0 are false
Truthy(x) == x.t = "num" /\ x.v # 0

REMOTE == <<"r","e","m","o","t","e">>

\* _compute_score(job), in tenths of a point (5.0 is 50)
_compute_score(job, profile) ==
    LET job_skills == { Lower(k) : k \in Elems(Get(job, "skills", <<>>)) }
        user_skills == { Lower(k) : k \in Elems(Get(profile, "skills", <<>>)) }
        skill_matches == Cardinality(job_skills \cap user_skills)
        preferred_locations == { Lower(l) : l \in Elems(Get(profile, "locations", <<>>)) }
        job_location == Lower(Get(job, "location", <<>>))
        min_salary == Get(profile, "min_salary", None)
        job_salary == Get(job, "salary", None)
        remote_pref == Get(profile, "remote_only", FALSE)
        exp_years == Get(profile, "experience_years", None)
        job_exp == Get(job, "experience_years", None)
    IN  skill_matches * 50
        + (IF \E loc \in preferred_locations : Contains(loc, job_location)
           THEN 100 ELSE 0)
        + (IF Truthy(min_salary) /\ Truthy(job_salary) /\ job_salary.v >= min_salary.v
           THEN 75 ELSE 0)
        + (IF remote_pref /\ (Get(job, "is_remote", FALSE) \/ Contains(REMOTE, job_location))
           THEN 80 ELSE 0)
        + (IF Truthy(job_exp) /\ Truthy(exp_years) /\ job_exp.v <= exp_years.v
           THEN 30 ELSE 0)

\* the loop of rank_jobs: job['rank_score'] = self._compute_score(job), on
\* every dict of the list
WithRankScores(js, profile) ==
    [i \in 1..Len(js) |-> ("rank_score" :> _compute_score(js[i], profile)) @@ js[i]]

\* place position i in an index list ordered by descending rank_score, after
\* every position whose score is at least as high
RECURSIVE InsertDesc(_, _, _)
InsertDesc(js, idx, i) ==
    IF idx = <<>> THEN <<i>>
    ELSE IF js[Head(idx)].rank_score >= js[i].rank_score
         THEN <<Head(idx)>> \o InsertDesc(js, Tail(idx), i)
         ELSE <<i>> \o idx

RECURSIVE SortLoop(_, _, _)
SortLoop(js, i, idx) ==
    IF i > Len(js) THEN idx ELSE SortLoop(js, i + 1, InsertDesc(js, idx, i))

\* ascending order: `reverse=True` left out
RECURSIVE InsertAsc(_, _, _)
InsertAsc(js, idx, i) ==
    IF idx = <<>> THEN <<i>>
    ELSE IF js[Head(idx)].rank_score <= js[i].rank_score
         THEN <<Head(idx)>> \o InsertAsc(js, Tail(idx), i)
         ELSE <<i>> \o idx

RECURSIVE SortLoopAsc(_, _, _)
SortLoopAsc(js, i, idx) ==
    IF i > Len(js) THEN idx ELSE SortLoopAsc(js, i + 1, InsertAsc(js, idx, i))

SortedAscending(js) == SortLoopAsc(js, 1, <<>>)

\* sorted(jobs, key=...)[::-1]: an ascending sort read backwards
SortedThenReversed(js) ==
    LET asc == SortLoopAsc(js, 1, <<>>)
    IN  [k \in 1..Len(asc) |-> asc[Len(asc) + 1 - k]]

\* sorted(jobs, key=lambda j: j['rank_score'], reverse=True): a stable sort,
\* given as the positions of jobs in their new order
SortedByRankScore(js) == SortLoop(js, 1, <<>>)

\* rank_jobs(jobs)
rank_jobs ==
    /\ ~rankRan
    /\ rankInput' = rjobs
    /\ rjobs' = WithRankScores(rjobs, user_profile)
    /\ rankedIdx' = SortedByRankScore(WithRankScores(rjobs, user_profile))
    /\ rankRan' = TRUE
    /\ UNCHANGED <<queryVars, normVars, user_profile, dedupeVars, filterVars, fetchVars>>

\* ranked_jobs: the dicts the returned list refers to
ranked_jobs == [k \in 1..Len(rankedIdx) |-> rjobs[rankedIdx[k]]]

PY == <<"P","y">>
NY == <<"N","Y">>

RankJobPool ==
    [ title : { <<"X">>, <<"Y">> },
      skills : { <<PY>>, <<>> },
      location : { <<"R","e","m","o","t","e">>, NY },
      salary : { Num(120) } ]
    \cup
    [ title : { <<"X">>, <<"Y">> },
      location : { <<"R","e","m","o","t","e">> } ]

ProfilePool ==
    { [skills |-> << <<"p","y">> >>, remote_only |-> TRUE],
      [skills |-> << <<"p","y">> >>, locations |-> << <<"n","y">> >>, min_salary |-> Num(100)],
      [skills |-> <<>>, locations |-> << <<"r","e","m">> >>, remote_only |-> FALSE,
       min_salary |-> Num(150), experience_years |-> Num(5)] }

RankInit ==
    /\ user_profile \in ProfilePool
    /\ rjobs \in SeqsUpTo(RankJobPool, MaxRankJobs)
    /\ rankInput = <<>>
    /\ rankedIdx = <<>>
    /\ rankRan = FALSE
    /\ DedupeIdle
    /\ FilterIdle
    /\ FetchIdle
    /\ QueryIdle
    /\ NormIdle

RankNext == rank_jobs

SpecRank == RankInit /\ [][RankNext]_vars

----------------------------------------------------------------------------
(* Claims about rank_jobs                                                  *)

\* C4: rank_jobs returns exactly the listings it was given (each once), with
\* scores non-increasing from first to last.
C4_PermutationNonIncreasing ==
    rankRan =>
        /\ Len(rankedIdx) = Len(rankInput)
        /\ \A i \in 1..Len(rankInput) : \E k \in 1..Len(rankedIdx) : rankedIdx[k] = i
        /\ \A k \in 1..Len(rankedIdx) :
               ranked_jobs[k].rank_score = _compute_score(rankInput[rankedIdx[k]], user_profile)
        /\ \A k, l \in 1..Len(rankedIdx) :
               k < l => ranked_jobs[k].rank_score >= ranked_jobs[l].rank_score

\* C4 witness: three listings were ranked and the first scores strictly more
\* than the last, which stood before it in the input
C4_Witness ==
    /\ rankRan
    /\ Len(rankedIdx) = 3
    /\ ranked_jobs[1].rank_score > ranked_jobs[3].rank_score
    /\ rankedIdx[1] > rankedIdx[3]

\* C5: rank_jobs is stable: of two listings with equal score the one that
\* came first in the input comes first in the output.
C5_Stable ==
    rankRan =>
        \A k, l \in 1..Len(rankedIdx) :
            (k < l /\ ranked_jobs[k].rank_score = ranked_jobs[l].rank_score)
                => rankedIdx[k] < rankedIdx[l]

\* C5 witness: two listings tie on a non-zero score, and a better listing that
\* stood after them was moved in front of both
C5_Witness ==
    /\ rankRan
    /\ Len(rankedIdx) = 3
    /\ rankedIdx = <<3, 1, 2>>
    /\ ranked_jobs[2].rank_score = ranked_jobs[3].rank_score
    /\ ranked_jobs[2].rank_score > 0

\* C6: rank_jobs does not mutate its input: every listing has exactly the
\* fields and values it had before the call.
C6_InputUnchanged ==
    rankRan => rjobs = rankInput

----------------------------------------------------------------------------
(* JobFilter                                                               *)

\* the day datetime.now() falls on
NowDay == 100

\* a datetime, a string datetime.fromisoformat parses, and a non-empty string
\* it rejects, as values of posted_date
Date(d) == [t |-> "date", v |-> d]
IsoStr(d) == [t |-> "isostr", v |-> d]
BadStr == [t |-> "badstr", v |-> 0]

_check_required_skills(job, c) ==
    LET job_skills == Get(job, "skills", <<>>)
        job_description == Lower(Get(job, "description", <<>>))
    IN  \A k \in 1..Len(c.required_skills) :
            LET skill_lower == Lower(c.required_skills[k])
            IN  ~ ( skill_lower \notin { Lower(x) : x \in Elems(job_skills) }
                    /\ ~Contains(skill_lower, job_description) )

_check_location(job, c) ==
    IF c.remote_only
    THEN Get(job, "is_remote", FALSE) \/ Contains(REMOTE, Lower(Get(job, "location", <<>>)))
    ELSE IF c.locations = <<>> THEN TRUE
    ELSE LET job_location == Lower(Get(job, "location", <<>>))
         IN  \E k \in 1..Len(c.locations) : Contains(Lower(c.locations[k]), job_location)

\* _check_salary without the `job_salary is None` test: a missing salary
\* fails a lower bound
_check_salary_no_none_test(job, c) ==
    LET job_salary == Get(job, "salary", None)
    IN  /\ ~(Truthy(c.min_salary) /\ (job_salary.t = "none" \/ job_salary.v < c.min_salary.v))
        /\ ~(Truthy(c.max_salary) /\ job_salary.t = "num" /\ job_salary.v > c.max_salary.v)

_check_salary(job, c) ==
    LET job_salary == Get(job, "salary", None)
    IN  IF job_salary.t = "none" THEN TRUE
        ELSE IF Truthy(c.min_salary) /\ job_salary.v < c.min_salary.v THEN FALSE
        ELSE IF Truthy(c.max_salary) /\ job_salary.v > c.max_salary.v THEN FALSE
        ELSE TRUE

_check_experience(job, c) ==
    LET job_experience == Get(job, "experience_years", None)
    IN  IF job_experience.t = "none" THEN TRUE
        ELSE IF Truthy(c.experience_min) /\ job_experience.v < c.experience_min.v THEN FALSE
        ELSE IF Truthy(c.experience_max) /\ job_experience.v > c.experience_max.v THEN FALSE
        ELSE TRUE

_check_job_type(job, c) ==
    IF c.job_types = <<>> THEN TRUE
    ELSE LET job_type == Lower(Get(job, "job_type", <<>>))
         IN  \E k \in 1..Len(c.job_types) : Contains(Lower(c.job_types[k]), job_type)

\* the whitelist is looked at first, and a whitelisted company is accepted
_check_company_whitelist_first(job, c) ==
    LET company == Lower(Get(job, "company", <<>>))
        allowed == \E k \in 1..Len(c.company_whitelist) :
                       Contains(Lower(c.company_whitelist[k]), company)
        blocked == \E k \in 1..Len(c.company_blacklist) :
                       Contains(Lower(c.company_blacklist[k]), company)
    IN  IF c.company_whitelist # <<>> THEN allowed ELSE ~blocked

_check_company(job, c) ==
    LET company == Lower(Get(job, "company", <<>>))
    IN  IF c.company_blacklist # <<>>
           /\ \E k \in 1..Len(c.company_blacklist) :
                  Contains(Lower(c.company_blacklist[k]), company)
        THEN FALSE
        ELSE IF c.company_whitelist # <<>>
                /\ ~ \E k \in 1..Len(c.company_whitelist) :
                         Contains(Lower(c.company_whitelist[k]), company)
        THEN FALSE
        ELSE TRUE

_check_posting_date(job, c) ==
    LET posted_date == Get(job, "posted_date", None)
    IN  IF ~Truthy(c.posted_within_days) THEN TRUE
        ELSE IF posted_date.t = "none" THEN TRUE
        ELSE IF posted_date.t = "str" /\ posted_date.v = <<>> THEN TRUE
        ELSE IF posted_date.t = "badstr" THEN TRUE
        ELSE posted_date.v >= NowDay - c.posted_within_days.v

_check_keywords(job, c) ==
    LET description == Lower(Get(job, "description", <<>>))
        title == Lower(Get(job, "title", <<>>))
        combined_text == title \o <<" ">> \o description
    IN  IF c.keywords # <<>>
           /\ ~ \E k \in 1..Len(c.keywords) : Contains(Lower(c.keywords[k]), combined_text)
        THEN FALSE
        ELSE IF c.exclude_keywords # <<>>
                /\ \E k \in 1..Len(c.exclude_keywords) :
                       Contains(Lower(c.exclude_keywords[k]), combined_text)
        THEN FALSE
        ELSE TRUE

\* _meets_criteria returning True after the company check
_meets_criteria_first_six(job, c) ==
    IF ~_check_required_skills(job, c) THEN FALSE
    ELSE IF ~_check_location(job, c) THEN FALSE
    ELSE IF ~_check_salary(job, c) THEN FALSE
    ELSE IF ~_check_experience(job, c) THEN FALSE
    ELSE IF ~_check_job_type(job, c) THEN FALSE
    ELSE IF ~_check_company(job, c) THEN FALSE
    ELSE TRUE

_meets_criteria(job, c) ==
    IF ~_check_required_skills(job, c) THEN FALSE
    ELSE IF ~_check_location(job, c) THEN FALSE
    ELSE IF ~_check_salary(job, c) THEN FALSE
    ELSE IF ~_check_experience(job, c) THEN FALSE
    ELSE IF ~_check_job_type(job, c) THEN FALSE
    ELSE IF ~_check_company(job, c) THEN FALSE
    ELSE IF ~_check_posting_date(job, c) THEN FALSE
    ELSE IF ~_check_keywords(job, c) THEN FALSE
    ELSE TRUE

\* the for loop of filter_jobs, from position i on: the positions kept
RECURSIVE FilterLoop(_, _, _, _)
FilterLoop(js, c, i, kept) ==
    IF i > Len(js) THEN kept
    ELSE IF _meets_criteria(js[i], c) THEN FilterLoop(js, c, i + 1, Append(kept, i))
    ELSE FilterLoop(js, c, i + 1, kept)

\* `job_salary < min_salary` and `job_salary > max_salary` raise TypeError
\* when the salary is a string: the comparison is reached when the bound is
\* truthy
SalaryRaises(job, c) ==
    /\ Get(job, "salary", None).t = "str"
    /\ (Truthy(c.min_salary) \/ Truthy(c.max_salary))

\* _meets_criteria gets as far as _check_salary, which raises
MeetsRaises(job, c) ==
    /\ _check_required_skills(job, c)
    /\ _check_location(job, c)
    /\ SalaryRaises(job, c)

\* nothing in the loop of filter_jobs catches: the first job that makes
\* _meets_criteria raise ends the call
FilterRaises(js, c) == \E i \in 1..Len(js) : MeetsRaises(js[i], c)

\* filter_jobs(jobs)
filter_jobs ==
    /\ ~filterRan
    /\ ~filterRaised
    /\ total_processed' = Len(fjobs)
    /\ IF FilterRaises(fjobs, criteria)
       THEN /\ filterRaised' = TRUE
            /\ UNCHANGED <<filteredIdx, filtered_count, filterRan>>
       ELSE /\ filteredIdx' = FilterLoop(fjobs, criteria, 1, <<>>)
            /\ filtered_count' = Len(FilterLoop(fjobs, criteria, 1, <<>>))
            /\ filterRan' = TRUE
            /\ filterRaised' = FALSE
    /\ UNCHANGED <<queryVars, normVars, criteria, fjobs, dedupeVars, rankVars, fetchVars>>

\* filtered_jobs: the dicts the returned list refers to
filtered_jobs == [k \in 1..Len(filteredIdx) |-> fjobs[filteredIdx[k]]]

FilterJobPool ==
    [ title : { <<"D","e","v">> },
      company : { <<"C","o">>, <<"n","y">> },
      location : { <<"R","e","m","o","t","e">>, NY },
      salary : { None, Num(90), Num(120) } ]
    \cup
    [ title : { <<"D","e","v">> },
      company : { <<"C","o">>, <<"n","y">> },
      location : { <<"R","e","m","o","t","e">>, NY } ]

CriteriaPool ==
    { [DefaultCriteria EXCEPT !.min_salary = lo, !.max_salary = hi,
                              !.remote_only = ro, !.company_blacklist = bl] :
        lo \in { None, Num(100) }, hi \in { None, Num(100) },
        ro \in BOOLEAN, bl \in { <<>>, << <<"c","o">> >> } }

FilterInit ==
    /\ criteria \in CriteriaPool
    /\ fjobs \in SeqsUpTo(FilterJobPool, MaxFilterJobs)
    /\ filteredIdx = <<>>
    /\ total_processed = 0
    /\ filtered_count = 0
    /\ filterRan = FALSE
    /\ filterRaised = FALSE
    /\ DedupeIdle
    /\ RankIdle
    /\ FetchIdle
    /\ QueryIdle
    /\ NormIdle

FilterNext == filter_jobs

SpecFilter == FilterInit /\ [][FilterNext]_vars

----------------------------------------------------------------------------
(* Claims about filter_jobs                                                *)

\* the seven predicates of _meets_criteria other than the salary predicate
OtherPredicates(job, c) ==
    /\ _check_required_skills(job, c)
    /\ _check_location(job, c)
    /\ _check_experience(job, c)
    /\ _check_job_type(job, c)
    /\ _check_company(job, c)
    /\ _check_posting_date(job, c)
    /\ _check_keywords(job, c)

SalaryAbsent(job) == "salary" \notin DOMAIN job \/ job.salary = None

\* C7: a listing whose salary is absent is never rejected on the salary
\* predicate, whatever minSalary and maxSalary are: filter_jobs keeps it
\* whenever the other predicates pass.
C7_AbsentSalaryNeverRejected ==
    filterRan =>
        \A i \in 1..Len(fjobs) :
            (SalaryAbsent(fjobs[i]) /\ OtherPredicates(fjobs[i], criteria))
                => \E k \in 1..Len(filteredIdx) : filteredIdx[k] = i

\* C7 witness: with both salary bounds set, a listing without a salary was
\* kept while a listing whose salary is below the minimum was rejected
C7_Witness ==
    /\ filterRan
    /\ Truthy(criteria.min_salary) /\ Truthy(criteria.max_salary)
    /\ Len(fjobs) = 2
    /\ filteredIdx = <<2>>
    /\ SalaryAbsent(fjobs[2])
    /\ ~SalaryAbsent(fjobs[1]) /\ fjobs[1].salary.v < criteria.min_salary.v
    /\ OtherPredicates(fjobs[1], criteria)

----------------------------------------------------------------------------
(* JobFetcher: fetch_jobs, _fetch_all_sources, _make_api_request           *)

max_retries == 3
retry_delay == 1

KnownSources == { "linkedin", "indeed", "glassdoor" }

\* datetime.utcnow().isoformat(), an opaque stamp
UtcNow == <<"n","o","w">>

\* parse_job_listing(raw_data), for a raw_data that is a dict
parse_job_listing(raw_data) ==
    [ title |-> Get(raw_data.v, "title", <<>>),
      company |-> Get(raw_data.v, "company", <<>>),
      location |-> Get(raw_data.v, "location", <<>>),
      description |-> Get(raw_data.v, "description", <<>>),
      url |-> Get(raw_data.v, "url", <<>>),
      posted_date |-> Get(raw_data.v, "posted_date", Text(<<>>)),
      salary |-> Get(raw_data.v, "salary", Text(<<>>)),
      job_type |-> Get(raw_data.v, "job_type", <<>>),
      source |-> Get(raw_data.v, "source", "unknown"),
      fetched_at |-> UtcNow ]

\* raw_data.get raises AttributeError when raw_data is not a dict
ParseRaises(raw_data) == raw_data.t # "dict"

\* _extract_jobs_from_response(data, source)
_extract_jobs_from_response(data, source) ==
    IF source = "linkedin" THEN Get(data, "elements", <<>>)
    ELSE IF source = "indeed" THEN Get(data, "results", <<>>)
    ELSE IF source = "glassdoor" THEN Get(Get(data, "response", <<>>), "jobListings", <<>>)
    ELSE <<>>

\* the retry loop runs one iteration too many
LoopEndsOffByOne(attempt) == attempt > max_retries

\* `for attempt in range(max_retries)` is exhausted
LoopEnds(attempt) == attempt >= max_retries

\* the coroutine _fetch_<source>(keywords, location) as gather first holds it
NewTask(source) ==
    [ source |-> source, pc |-> "request", attempt |-> 0, calls |-> 0,
      only429 |-> TRUE, last |-> "none", result |-> <<>>, late |-> FALSE,
      delay |-> 0 ]

\* the loop of _fetch_all_sources that builds `tasks`: unknown sources are
\* skipped with a warning
RECURSIVE BuildTasks(_, _)
BuildTasks(srcs, i) ==
    IF i > Len(srcs) THEN <<>>
    ELSE IF srcs[i] \in KnownSources
         THEN <<NewTask(srcs[i])>> \o BuildTasks(srcs, i + 1)
         ELSE BuildTasks(srcs, i + 1)

\* fetch_jobs up to the await of asyncio.gather: __aenter__ when there is no
\* session, then _fetch_all_sources builds its tasks. Nothing on the way
\* looks at keywords: it only becomes a request parameter
fetch_jobs_enter ==
    /\ fpc \in { "idle", "done", "failed" }
    /\ fetchRuns < MaxFetchRuns
    /\ fetchRuns' = fetchRuns + 1
    /\ IF session = "none"
       THEN session' = "open" /\ owns' = TRUE
       ELSE session' = session /\ owns' = FALSE
    /\ tasks' = BuildTasks(sources, 1)
    /\ errors' = <<>>
    /\ deadlinePassed' = FALSE
    /\ fpc' = "gathering"
    /\ UNCHANGED <<queryVars, normVars, sources, other, dedupeVars, rankVars, filterVars>>

\* fetch_jobs when aiohttp.ClientSession(...) raises in __aenter__: nothing
\* in fetch_jobs catches it, so the call raises before any task is built,
\* and leaves self.session as it was
aenter_raises ==
    /\ fpc \in { "idle", "done", "failed" }
    /\ fetchRuns < MaxFetchRuns
    /\ session = "none"
    /\ fetchRuns' = fetchRuns + 1
    /\ owns' = FALSE
    /\ tasks' = <<>>
    /\ errors' = <<>>
    /\ deadlinePassed' = FALSE
    /\ fpc' = "failed"
    /\ UNCHANGED <<queryVars, normVars, sources, other, session, dedupeVars, rankVars, filterVars>>

\* the task leaves _make_api_request with `return []`, which _fetch_<source>
\* turns into an empty list of listings
ReturnEmpty(tk, called, kind) ==
    [tk EXCEPT !.pc = "returned", !.result = <<>>, !.calls = called,
               !.only429 = tk.only429 /\ kind = "rate_limited", !.last = kind,
               !.late = deadlinePassed, !.delay = 0]

ResponseKinds == { "ok", "bad_json", "rate_limited", "bad_status", "client_error", "timeout" }

\* the listings of the records that are dicts, in order
RECURSIVE ParsedDicts(_)
ParsedDicts(raw) ==
    IF raw = <<>> THEN <<>>
    ELSE IF ParseRaises(Head(raw)) THEN ParsedDicts(Tail(raw))
    ELSE <<parse_job_listing(Head(raw))>> \o ParsedDicts(Tail(raw))

\* the same iteration with a list comprehension that skips the records
\* parse_job_listing cannot take
AfterRequestSkipBad(tk, kind, data) ==
    LET called == tk.calls + 1
    IN  CASE kind = "ok" ->
               [tk EXCEPT !.pc = "returned", !.calls = called, !.only429 = FALSE,
                          !.last = kind,
                          !.result = ParsedDicts(_extract_jobs_from_response(data, tk.source)),
                          !.late = deadlinePassed]
          [] kind = "rate_limited" ->
               [tk EXCEPT !.pc = "sleep", !.calls = called, !.last = kind,
                          !.delay = retry_delay * (tk.attempt + 1)]
          [] kind = "client_error" ->
               IF tk.attempt < max_retries - 1
               THEN [tk EXCEPT !.pc = "sleep", !.calls = called, !.only429 = FALSE,
                               !.last = kind, !.delay = retry_delay]
               ELSE ReturnEmpty(tk, called, kind)
          [] OTHER ->
               ReturnEmpty(tk, called, kind)

\* the same iteration with every failure handled like HTTP 429: sleep, then
\* the next attempt
AfterRequestRetryAll(tk, kind, data) ==
    LET called == tk.calls + 1
    IN  CASE kind = "ok" ->
               LET raw == _extract_jobs_from_response(data, tk.source)
               IN  IF \E k \in 1..Len(raw) : ParseRaises(raw[k])
                   THEN [tk EXCEPT !.pc = "raised", !.calls = called, !.only429 = FALSE,
                                   !.last = kind, !.late = deadlinePassed]
                   ELSE [tk EXCEPT !.pc = "returned", !.calls = called, !.only429 = FALSE,
                                   !.last = kind,
                                   !.result = [k \in 1..Len(raw) |-> parse_job_listing(raw[k])],
                                   !.late = deadlinePassed]
          [] OTHER ->
               [tk EXCEPT !.pc = "sleep", !.calls = called, !.last = kind,
                          !.only429 = tk.only429 /\ kind = "rate_limited",
                          !.delay = retry_delay * (tk.attempt + 1)]

\* one iteration of the retry loop of _make_api_request, up to its return,
\* raise or sleep, for the response `kind` (with body `data` when it is "ok")
AfterRequest(tk, kind, data) ==
    LET called == tk.calls + 1
    IN  CASE kind = "ok" ->
               LET raw == _extract_jobs_from_response(data, tk.source)
               IN  IF \E k \in 1..Len(raw) : ParseRaises(raw[k])
                   THEN [tk EXCEPT !.pc = "raised", !.calls = called, !.only429 = FALSE,
                                   !.last = kind, !.late = deadlinePassed]
                   ELSE [tk EXCEPT !.pc = "returned", !.calls = called, !.only429 = FALSE,
                                   !.last = kind,
                                   !.result = [k \in 1..Len(raw) |-> parse_job_listing(raw[k])],
                                   !.late = deadlinePassed]
          [] kind = "rate_limited" ->
               [tk EXCEPT !.pc = "sleep", !.calls = called, !.last = kind,
                          !.delay = retry_delay * (tk.attempt + 1)]
          [] kind = "client_error" ->
               IF tk.attempt < max_retries - 1
               THEN [tk EXCEPT !.pc = "sleep", !.calls = called, !.only429 = FALSE,
                               !.last = kind, !.delay = retry_delay]
               ELSE ReturnEmpty(tk, called, kind)
          [] OTHER ->
               ReturnEmpty(tk, called, kind)

\* the records a source may send: a job dict naming the source, and a record
\* that is a string, not a dict
RawPool(source) ==
    { Dict([title |-> <<"D","e","v">>, company |-> <<"C","o">>,
            location |-> <<"R","e","m","o","t","e">>, salary |-> Num(120),
            source |-> source]),
      Text(<<"x">>) }

\* the bodies a source may answer with: each envelope, around up to
\* MaxRecords records
DataPool(source) ==
    UNION { { [elements |-> r], [results |-> r], [response |-> [jobListings |-> r]] } :
            r \in SeqsUpTo(RawPool(source), MaxRecords) }

\* one attempt of task i: session.get and what follows it. The job board
\* answers as it pleases, or, in a scenario, HTTP 200 with the scripted body
make_api_request(i) ==
    /\ fpc = "gathering"
    /\ tasks[i].pc = "request"
    /\ IF session = "none"
       THEN tasks' = [tasks EXCEPT ![i] = ReturnEmpty(tasks[i], tasks[i].calls, "no_session")]
       ELSE IF session = "closed"
       THEN tasks' = [tasks EXCEPT ![i] =
                         ReturnEmpty(tasks[i], tasks[i].calls + 1, "session_closed")]
       ELSE IF script.on
       THEN tasks' = [tasks EXCEPT ![i] =
                         AfterRequest(tasks[i], "ok", script.data[tasks[i].source])]
       ELSE \E kind \in ResponseKinds :
              \E data \in (IF kind = "ok" THEN DataPool(tasks[i].source) ELSE { <<>> }) :
                 tasks' = [tasks EXCEPT ![i] = AfterRequest(tasks[i], kind, data)]
    /\ UNCHANGED <<queryVars, normVars, sources, session, fpc, owns, errors, deadlinePassed, fetchRuns, other,
                   dedupeVars, rankVars, filterVars>>

\* asyncio.sleep of task i is over: the next iteration of the loop, or the
\* `return []` after it
wake(i) ==
    /\ fpc = "gathering"
    /\ tasks[i].pc = "sleep"
    /\ IF LoopEnds(tasks[i].attempt + 1)
       THEN tasks' = [tasks EXCEPT ![i] = ReturnEmpty(tasks[i], tasks[i].calls, tasks[i].last)]
       ELSE tasks' = [tasks EXCEPT ![i].pc = "request", ![i].attempt = tasks[i].attempt + 1,
                                   ![i].delay = 0]
    /\ UNCHANGED <<queryVars, normVars, sources, session, fpc, owns, errors, deadlinePassed, fetchRuns, other,
                   dedupeVars, rankVars, filterVars>>

\* gather waits for a result and takes no exception for one
TaskDoneOnlyReturned(tk) == tk.pc = "returned"

\* the coroutine is over, with a list or with an exception: either way
\* gather(return_exceptions=True) has its result
TaskDone(tk) == tk.pc \in { "returned", "raised" }

\* a list, last element first
RECURSIVE Reversed(_)
Reversed(q) == IF q = <<>> THEN <<>> ELSE Reversed(Tail(q)) \o <<Head(q)>>

\* the aggregation loop takes each result last listing first
RECURSIVE AllJobsReversedWithin(_, _)
AllJobsReversedWithin(ts, i) ==
    IF i > Len(ts) THEN <<>>
    ELSE IF ts[i].pc = "raised" THEN AllJobsReversedWithin(ts, i + 1)
    ELSE Reversed(ts[i].result) \o AllJobsReversedWithin(ts, i + 1)

\* the aggregation loop stops at the first exception among the results
RECURSIVE AllJobsUntilException(_, _)
AllJobsUntilException(ts, i) ==
    IF i > Len(ts) THEN <<>>
    ELSE IF ts[i].pc = "raised" THEN <<>>
    ELSE ts[i].result \o AllJobsUntilException(ts, i + 1)

\* the loop over the results of gather: all_jobs.extend(result) for every
\* result that is not an exception
RECURSIVE AllJobs(_, _)
AllJobs(ts, i) ==
    IF i > Len(ts) THEN <<>>
    ELSE IF ts[i].pc = "raised" THEN AllJobs(ts, i + 1)
    ELSE ts[i].result \o AllJobs(ts, i + 1)

\* the same loop: the source each logger.error line names, self.sources[i]
RECURSIVE LoggedErrors(_, _, _)
LoggedErrors(ts, srcs, i) ==
    IF i > Len(ts) THEN <<>>
    ELSE IF ts[i].pc = "raised" THEN <<srcs[i]>> \o LoggedErrors(ts, srcs, i + 1)
    ELSE LoggedErrors(ts, srcs, i + 1)

\* _fetch_all_sources raises when no source produced a listing
AfterGatherRaiseIfNone(ts, own) ==
    IF \A i \in 1..Len(ts) : ts[i].pc = "raised" \/ ts[i].result = <<>>
    THEN "failed"
    ELSE IF own THEN "closing" ELSE "done"

\* where fetch_jobs goes once _fetch_all_sources has returned, whatever the
\* sources did: out of `async with self` when it entered it, else straight
\* to its own return
AfterGather(ts, own) == IF own THEN "closing" ELSE "done"

\* asyncio.gather(*tasks, return_exceptions=True) has every result:
\* _fetch_all_sources aggregates, stores self.jobs and returns
fetch_all_sources_return ==
    /\ fpc = "gathering"
    /\ \A i \in 1..Len(tasks) : TaskDone(tasks[i])
    /\ jobs' = AllJobs(tasks, 1)
    /\ returned' = AllJobs(tasks, 1)
    /\ errors' = LoggedErrors(tasks, sources, 1)
    /\ fpc' = AfterGather(tasks, owns)
    /\ UNCHANGED <<queryVars, normVars, sources, session, owns, tasks, deadlinePassed, fetchRuns, other,
                   prevJobs, dedupeRuns, rankVars, filterVars>>

\* an __aexit__ that does not close the session
SessionLeftOpen(s) == s

\* `if self.session: await self.session.close()`: the attribute keeps the
\* ClientSession object, which is now closed
SessionAfterExit(s) == IF s = "none" THEN "none" ELSE "closed"

\* __aexit__: await self.session.close(), then fetch_jobs returns
aexit ==
    /\ fpc = "closing"
    /\ session' = SessionAfterExit(session)
    /\ fpc' = "done"
    /\ UNCHANGED <<queryVars, normVars, sources, owns, tasks, errors, deadlinePassed, fetchRuns, other,
                   dedupeVars, rankVars, filterVars>>

\* time passes while gather is awaited: the caller's deadline for the run
\* goes by
deadline_elapses ==
    /\ fpc = "gathering"
    /\ ~deadlinePassed
    /\ deadlinePassed' = TRUE
    /\ UNCHANGED <<queryVars, normVars, sources, session, fpc, owns, tasks, errors, fetchRuns, other,
                   dedupeVars, rankVars, filterVars>>

SourcesPool == { <<"linkedin", "indeed", "glassdoor">>, <<"indeed", "linkedin">> }

FetchInit ==
    /\ sources \in SourcesPool
    /\ session = "none"
    /\ fpc = "idle"
    /\ owns = FALSE
    /\ tasks = <<>>
    /\ errors = <<>>
    /\ deadlinePassed = FALSE
    /\ fetchRuns = 0
    /\ other = NoOther
    /\ DedupeIdle
    /\ RankIdle
    /\ FilterIdle
    /\ QueryIdle
    /\ NormIdle

FetchNext ==
    \/ fetch_jobs_enter
    \/ aenter_raises
    \/ \E i \in 1..Len(tasks) : make_api_request(i)
    \/ \E i \in 1..Len(tasks) : wake(i)
    \/ fetch_all_sources_return
    \/ aexit
    \/ deadline_elapses

SpecFetch == FetchInit /\ [][FetchNext]_vars

----------------------------------------------------------------------------
(* fetch_jobs over the queries a caller may hand it                        *)

\* the 1000 characters of "Developer " * 100, the over-long query of
\* test_fetch_with_very_long_query
LongKeywords == [i \in 1..1000 |-> "x"]

\* the keywords of test_fetch_jobs_with_empty_query, an ordinary query, and the
\* over-long one
KeywordsPool == { <<>>, <<"d","e","v">>, LongKeywords }

\* JobFetcher(sources=[one board]), and fetch_jobs(keywords) yet to be called
QueryInit ==
    /\ sources \in { <<"linkedin">>, <<"indeed">>, <<"glassdoor">> }
    /\ session = "none"
    /\ fpc = "idle"
    /\ owns = FALSE
    /\ tasks = <<>>
    /\ errors = <<>>
    /\ deadlinePassed = FALSE
    /\ fetchRuns = 0
    /\ other = NoOther
    /\ keywords \in KeywordsPool
    /\ script = [on |-> FALSE, data |-> <<>>]
    /\ DedupeIdle
    /\ RankIdle
    /\ FilterIdle
    /\ NormIdle

SpecQuery == QueryInit /\ [][FetchNext]_vars

----------------------------------------------------------------------------
(* Claims about a fetch run                                                *)

\* the task met HTTP 429 on every attempt it made
RateLimitedEveryTime(tk) == tk.only429 /\ tk.calls > 0

\* the source call succeeded: a 200 response whose records were all parsed
Succeeded(tk) == tk.pc = "returned" /\ tk.last = "ok"

\* the source call failed: it raised, or gave up with an empty list
Failed(tk) == TaskDone(tk) /\ ~Succeeded(tk)

\* the number of listings the calls before task i handed to gather
RECURSIVE ListingsBefore(_, _)
ListingsBefore(ts, i) ==
    IF i <= 1 THEN 0
    ELSE ListingsBefore(ts, i - 1)
         + (IF ts[i - 1].pc = "returned" THEN Len(ts[i - 1].result) ELSE 0)

\* the output holds the listings of task i, whole and in order
Contributes(ts, i, out) ==
    LET off == ListingsBefore(ts, i)
    IN  /\ off + Len(ts[i].result) <= Len(out)
        /\ \A k \in 1..Len(ts[i].result) : out[off + k] = ts[i].result[k]

\* C8: a source that answers 429 on every attempt is called at most
\* max_retries (3) times in a run: after the third 429 it only sleeps and
\* gives up with no listings, and the run returns the listings of the other
\* sources.
C8_RetryBound ==
    /\ \A i \in 1..Len(tasks) :
          /\ tasks[i].calls <= max_retries
          /\ (RateLimitedEveryTime(tasks[i]) /\ tasks[i].calls = max_retries)
                => tasks[i].pc \in { "sleep", "returned" }
    /\ fpc = "done" =>
         \A i \in 1..Len(tasks) :
            RateLimitedEveryTime(tasks[i]) =>
               /\ tasks[i].pc = "returned" /\ tasks[i].result = <<>>
               /\ \A j \in 1..Len(tasks) :
                     (j # i /\ Succeeded(tasks[j])) => Contributes(tasks, j, returned)

\* C8 witness: the run is over, the first source was rate limited on all
\* three attempts, and the listing of a later source was returned
C8_Witness ==
    /\ fpc = "done"
    /\ Len(tasks) >= 2
    /\ RateLimitedEveryTime(tasks[1]) /\ tasks[1].calls = max_retries
    /\ Succeeded(tasks[2]) /\ Len(tasks[2].result) = 1
    /\ returned = tasks[2].result

\* C9: whichever sources fail, no sibling call is aborted, the run returns
\* normally, and its output (also stored in self.jobs) holds every listing of
\* every source that succeeded.
C9_FailuresIsolated ==
    fpc \in { "closing", "done" } =>
        /\ \A i \in 1..Len(tasks) : TaskDone(tasks[i])
        /\ \A i \in 1..Len(tasks) :
              Succeeded(tasks[i]) => Contributes(tasks, i, returned)
        /\ Len(returned) = ListingsBefore(tasks, Len(tasks) + 1)
        /\ jobs = returned

\* C9 witness: the first call raised, the second gave up after a network
\* error, and the listing of the third is the output of the run
C9_Witness ==
    /\ fpc = "done"
    /\ Len(tasks) = 3
    /\ tasks[1].pc = "raised"
    /\ tasks[2].pc = "returned" /\ tasks[2].last = "client_error"
    /\ Succeeded(tasks[3]) /\ Len(tasks[3].result) = 1
    /\ returned = tasks[3].result
    /\ errors # <<>>

\* C10: a source call that had not completed when the overall deadline
\* elapsed contributes no listing to the output of the run.
C10_LateSourceContributesNothing ==
    fpc = "done" =>
        \A i \in 1..Len(tasks) :
            tasks[i].late => (tasks[i].pc = "raised" \/ tasks[i].result = <<>>)

----------------------------------------------------------------------------
(* Claims about the query of a fetch run                                   *)

\* the query is empty, or as long as the over-long query of the tests
InvalidKeywords == keywords = <<>> \/ Len(keywords) >= Len(LongKeywords)

\* C11: a fetch whose keywords are empty or over-long is rejected at once:
\* the run never gets as far as gathering, and no source call is made for it
C11_InvalidQueryRejected ==
    InvalidKeywords =>
        /\ fpc \notin { "gathering", "closing", "done" }
        /\ \A i \in 1..Len(tasks) : tasks[i].calls = 0

----------------------------------------------------------------------------
(* Claims about the retry loop of a source call                            *)

\* the Transient errors of the error taxonomy: a network error
\* (aiohttp.ClientError) and a timeout (asyncio.TimeoutError)
Transient == { "client_error", "timeout" }

\* C12: a source call that fails with a Transient error is retried, so a
\* call that gave up on a Transient error has made all max_retries attempts
C12_TransientRetried ==
    \A i \in 1..Len(tasks) :
        (tasks[i].pc = "returned" /\ tasks[i].last \in Transient)
            => tasks[i].calls = max_retries

\* the source call used up its attempts: it met HTTP 429 or a network error
\* on each of max_retries attempts and gave up with an empty list
Exhausted(tk) ==
    /\ tk.pc = "returned"
    /\ tk.calls = max_retries
    /\ tk.last \in { "rate_limited", "client_error" }

\* something of the finished run names an error of the source of task i:
\* an "Error fetching from" line of the aggregation loop, or an error-level
\* line of its _make_api_request (there is none when every attempt met 429,
\* which logs warnings only)
ErrorRecorded(i) ==
    \/ tasks[i].source \in Elems(errors)
    \/ ~tasks[i].only429

\* C13: a source that exhausted its retries yields an empty result and has
\* an error recorded for it in the outcome of the finished run
C13_ExhaustionRecorded ==
    fpc = "done" =>
        \A i \in 1..Len(tasks) :
            Exhausted(tasks[i]) => (tasks[i].result = <<>> /\ ErrorRecorded(i))

\* the Permanent failures of the error taxonomy: an HTTP status that is
\* neither 200 nor 429, and a 200 response whose body does not decode as JSON
Permanent == { "bad_status", "bad_json" }

\* C14 as stated: a source that fails with a Permanent failure has made
\* exactly one attempt in the run (so no delay was slept) and has no listings
C14_PermanentOneAttempt ==
    \A i \in 1..Len(tasks) :
        tasks[i].last \in Permanent =>
            /\ tasks[i].pc = "returned"
            /\ tasks[i].calls = 1
            /\ tasks[i].result = <<>>

\* C14, amended: a Permanent failure ends the source call at the attempt it
\* answers: the call has returned without sleeping, the attempts made are the
\* ones up to that attempt, and the source has no listings
C14_PermanentEndsCall ==
    \A i \in 1..Len(tasks) :
        tasks[i].last \in Permanent =>
            /\ tasks[i].pc = "returned"
            /\ tasks[i].calls = tasks[i].attempt + 1
            /\ tasks[i].result = <<>>

\* a Permanent failure answered the second attempt, after one HTTP 429
C14_Witness ==
    \E i \in 1..Len(tasks) :
        tasks[i].last \in Permanent /\ tasks[i].calls = 2 /\ tasks[i].pc = "returned"

----------------------------------------------------------------------------
(* Claims about the outcome and the session of a fetch run                 *)

\* the fetch_jobs call is over: it returned or it raised
RunEnded == fpc \in { "done", "failed" }

\* no source handed a listing to the run
NoListings ==
    \A i \in 1..Len(tasks) : tasks[i].pc = "raised" \/ tasks[i].result = <<>>

\* C15: a fetch_jobs call fails outright exactly when no source returned a
\* listing and no session could be established; every other call, one whose
\* sources all failed included, returns its (possibly empty) list
C15_FailsIffNoSession ==
    RunEnded => (fpc = "failed" <=> (session = "none" /\ NoListings))

\* a call has raised because the session could not be created
C15_Witness == fpc = "failed" /\ fetchRuns = 1 /\ session = "none"

\* C16: the fetch_jobs call that acquired the session itself uses that one
\* open session while its source calls run, and once the call has returned
\* or raised the session is closed: no open session remains
C16_SessionReleased ==
    /\ (fpc = "gathering" /\ owns) => session = "open"
    /\ (RunEnded /\ owns) => session = "closed"
    /\ fpc = "failed" => session # "open"

\* a call that opened the session has returned, one of its sources having
\* failed on the way
C16_Witness ==
    /\ fpc = "done" /\ owns /\ session = "closed"
    /\ \E i \in 1..Len(tasks) : tasks[i].pc = "raised"

----------------------------------------------------------------------------
(* _compute_score over single listings                                     *)

\* listings that vary in every field _compute_score reads; "Py" and "py" are
\* one skill up to case
ScoreJobPool ==
    [ title : { <<"X">> },
      skills : { <<>>, <<PY>>, <<PY, <<"p","y">> >> },
      location : { <<"R","e","m","o","t","e">>, NY },
      salary : { None, Num(120) },
      is_remote : BOOLEAN,
      experience_years : { None, Num(0), Num(3) } ]

\* profiles that vary in every field _compute_score reads
ScoreProfilePool ==
    [ skills : { << <<"p","y">> >> },
      locations : { <<>>, << <<"n","y">> >> },
      min_salary : { None, Num(100) },
      remote_only : BOOLEAN,
      experience_years : { None, Num(0), Num(5) } ]

\* JobRanker(profile), about to rank one listing
ScoreInit ==
    /\ user_profile \in ScoreProfilePool
    /\ rjobs \in { <<j>> : j \in ScoreJobPool }
    /\ rankInput = <<>>
    /\ rankedIdx = <<>>
    /\ rankRan = FALSE
    /\ DedupeIdle
    /\ FilterIdle
    /\ FetchIdle
    /\ QueryIdle
    /\ NormIdle

SpecScore == ScoreInit /\ [][RankNext]_vars

\* the sum the scoring rule names, in tenths of a point, where a field is
\* present when it is not None, the number 0 included
SumOfComponents(job, profile) ==
    LET common == { Lower(k) : k \in Elems(job.skills) }
                    \cap { Lower(k) : k \in Elems(profile.skills) }
        location == Lower(job.location)
    IN  50 * Cardinality(common)
        + (IF \E l \in Elems(profile.locations) : Contains(Lower(l), location)
           THEN 100 ELSE 0)
        + (IF profile.min_salary # None /\ job.salary # None
              /\ job.salary.v >= profile.min_salary.v
           THEN 75 ELSE 0)
        + (IF profile.remote_only /\ (job.is_remote \/ Contains(REMOTE, location))
           THEN 80 ELSE 0)
        + (IF job.experience_years # None /\ profile.experience_years # None
              /\ job.experience_years.v <= profile.experience_years.v
           THEN 30 ELSE 0)

\* C17: the score rank_jobs gives a listing is exactly the sum of the five
\* components, the experience bonus applying whenever both experienceYears
\* are present (the value 0 included) and the listing's is not the greater
C17_ScoreIsSum ==
    rankRan =>
        \A i \in 1..Len(rjobs) :
            rjobs[i].rank_score = SumOfComponents(rankInput[i], user_profile)

----------------------------------------------------------------------------
(* The pipeline: fetch, normalise, deduplicate, filter, rank               *)

ML_ENGINEER == <<"M","L"," ","E","n","g","i","n","e","e","r">>
TECH_CORP == <<"T","e","c","h"," ","C","o","r","p">>
PYTHON == <<"p","y","t","h","o","n">>

\* the raw record of the end-to-end example, and another one
MLRecord ==
    Dict([title |-> ML_ENGINEER, company |-> TECH_CORP,
          location |-> <<"R","e","m","o","t","e">>, skills |-> <<PYTHON>>,
          salary |-> Num(120000)])
OtherRecord ==
    Dict([title |-> <<"D","e","v">>, company |-> <<"C","o">>, location |-> NY,
          skills |-> <<PYTHON>>, salary |-> Num(90000)])

\* the body in which each job board wraps its records
Envelope(source, records) ==
    IF source = "linkedin" THEN [elements |-> records]
    ELSE IF source = "indeed" THEN [results |-> records]
    ELSE [response |-> [jobListings |-> records]]

\* every board answers with no record, the example's record, or the other one
ScriptPool ==
    { [src \in KnownSources |-> Envelope(src, f[src])] :
        f \in [KnownSources -> { <<>>, <<MLRecord>>, <<OtherRecord>> }] }

\* the end-to-end example: sources A and B return the same listing, C nothing
ExampleScript ==
    [src \in KnownSources |->
        Envelope(src, IF src = "glassdoor" THEN <<>> ELSE <<MLRecord>>)]

ExampleCriteria == [DefaultCriteria EXCEPT !.remote_only = TRUE]
ExampleProfile == [skills |-> <<PYTHON>>, remote_only |-> TRUE]

\* runPipeline: fetcher.deduplicate_jobs() once the fetch has returned
pipeline_dedupe ==
    /\ fpc = "done"
    /\ dedupeRuns = 0
    /\ deduplicate_jobs

\* runPipeline: JobFilter(criteria).filter_jobs(fetcher.jobs)
pipeline_filter ==
    /\ fpc = "done"
    /\ dedupeRuns = 1
    /\ ~filterRan
    /\ ~filterRaised
    /\ fjobs' = jobs
    /\ total_processed' = Len(jobs)
    /\ IF FilterRaises(jobs, criteria)
       THEN /\ filterRaised' = TRUE
            /\ UNCHANGED <<filteredIdx, filtered_count, filterRan>>
       ELSE /\ filteredIdx' = FilterLoop(jobs, criteria, 1, <<>>)
            /\ filtered_count' = Len(FilterLoop(jobs, criteria, 1, <<>>))
            /\ filterRan' = TRUE
            /\ filterRaised' = FALSE
    /\ UNCHANGED <<queryVars, normVars, criteria, dedupeVars, rankVars, fetchVars>>

\* runPipeline: JobRanker(profile).rank_jobs(filtered). The dicts of the
\* filtered list are those of the list it was filtered from, so the
\* rank_score written on them shows there as well
pipeline_rank ==
    /\ filterRan
    /\ ~rankRan
    /\ rankInput' = filtered_jobs
    /\ rjobs' = WithRankScores(filtered_jobs, user_profile)
    /\ rankedIdx' = SortedByRankScore(WithRankScores(filtered_jobs, user_profile))
    /\ rankRan' = TRUE
    /\ fjobs' = [i \in 1..Len(fjobs) |->
                   IF i \in Elems(filteredIdx)
                   THEN ("rank_score" :> _compute_score(fjobs[i], user_profile)) @@ fjobs[i]
                   ELSE fjobs[i]]
    /\ jobs' = fjobs'
    /\ UNCHANGED <<queryVars, normVars, user_profile, returned, prevJobs, dedupeRuns,
                   criteria, filteredIdx, total_processed, filtered_count, filterRan,
                   filterRaised, fetchVars>>

PipelineInit ==
    /\ sources = <<"linkedin", "indeed", "glassdoor">>
    /\ session = "none"
    /\ fpc = "idle"
    /\ owns = FALSE
    /\ tasks = <<>>
    /\ errors = <<>>
    /\ deadlinePassed = FALSE
    /\ fetchRuns = 0
    /\ other = NoOther
    /\ keywords = <<"d","e","v">>
    /\ script \in { [on |-> TRUE, data |-> d] : d \in ScriptPool }
    /\ criteria \in { DefaultCriteria, ExampleCriteria }
    /\ fjobs = <<>>
    /\ filteredIdx = <<>>
    /\ total_processed = 0
    /\ filtered_count = 0
    /\ filterRan = FALSE
    /\ filterRaised = FALSE
    /\ user_profile \in { ExampleProfile, [skills |-> <<PYTHON>>] }
    /\ rjobs = <<>>
    /\ rankInput = <<>>
    /\ rankedIdx = <<>>
    /\ rankRan = FALSE
    /\ DedupeIdle
    /\ NormIdle

PipelineNext ==
    \/ fetch_jobs_enter
    \/ aenter_raises
    \/ \E i \in 1..Len(tasks) : make_api_request(i)
    \/ fetch_all_sources_return
    \/ aexit
    \/ pipeline_dedupe
    \/ pipeline_filter
    \/ pipeline_rank

SpecPipeline == PipelineInit /\ [][PipelineNext]_vars

\* the end-to-end example, run to its end
ExampleRan ==
    /\ script = [on |-> TRUE, data |-> ExampleScript]
    /\ criteria = ExampleCriteria
    /\ user_profile = ExampleProfile
    /\ rankRan

\* C18: the end-to-end example yields exactly one ranked entry, the
\* "ML Engineer" listing of "Tech Corp", with score 13.0 (5.0 for the common
\* skill and 8.0 for remote)
C18_ExampleScore ==
    ExampleRan =>
        /\ Len(ranked_jobs) = 1
        /\ ranked_jobs[1].title = ML_ENGINEER
        /\ ranked_jobs[1].company = TECH_CORP
        /\ ranked_jobs[1].rank_score = 130

----------------------------------------------------------------------------
(* filter_jobs under company lists                                         *)

TECH == <<"T","e","c","h">>

CompanyJobPool ==
    [ title : { <<"D","e","v">> },
      company : { TECH_CORP, TECH, <<"C","o">> } ]

\* criteria that constrain the company only
CompanyCriteriaPool ==
    { [DefaultCriteria EXCEPT !.company_blacklist = bl, !.company_whitelist = wl] :
        bl \in { <<>>, << Lower(TECH_CORP) >>, << <<"C","O">> >> },
        wl \in { <<>>, << Lower(TECH) >>, << <<"c","o">>, <<"x">> >> } }

\* JobFilter(criteria), and the list filter_jobs is about to be given
CompanyInit ==
    /\ criteria \in CompanyCriteriaPool
    /\ fjobs \in SeqsUpTo(CompanyJobPool, MaxFilterJobs)
    /\ filteredIdx = <<>>
    /\ total_processed = 0
    /\ filtered_count = 0
    /\ filterRan = FALSE
    /\ filterRaised = FALSE
    /\ DedupeIdle
    /\ RankIdle
    /\ FetchIdle
    /\ QueryIdle
    /\ NormIdle

SpecCompany == CompanyInit /\ [][FilterNext]_vars

\* the company of the listing contains an entry of the list, case aside
OnList(job, list) ==
    \E k \in 1..Len(list) : Contains(Lower(list[k]), Lower(job.company))

\* C19: with only company lists configured, filter_jobs keeps a listing
\* exactly when its company is on no blocklist entry and, if an allowlist is
\* configured, on an allowlist entry: the blocklist wins over the allowlist
C19_BlocklistBeforeAllowlist ==
    filterRan =>
        \A i \in 1..Len(fjobs) :
            i \in Elems(filteredIdx) <=>
                /\ ~OnList(fjobs[i], criteria.company_blacklist)
                /\ (criteria.company_whitelist = <<>>
                    \/ OnList(fjobs[i], criteria.company_whitelist))

\* a "Tech Corp" listing that is on both lists has been rejected
C19_Witness ==
    /\ filterRan
    /\ \E i \in 1..Len(fjobs) :
          /\ fjobs[i].company = TECH_CORP
          /\ OnList(fjobs[i], criteria.company_blacklist)
          /\ OnList(fjobs[i], criteria.company_whitelist)
          /\ i \notin Elems(filteredIdx)

----------------------------------------------------------------------------
(* parse_job_listing over the raw records a job board may send             *)

\* a key of a raw record, when the record has it
Field(key, opt) == IF opt.has THEN key :> opt.val ELSE <<>>

Missing(val) == [has |-> FALSE, val |-> val]
Given(val) == [has |-> TRUE, val |-> val]

\* raw dicts in which each of title, company, salary and posted_date is
\* missing, well typed, or of a wrong type: a salary that is the text
\* "invalid" or the text "120", or None
RawDictPool ==
    { Dict(Field("title", t) @@ Field("company", c) @@ Field("salary", sal)
           @@ Field("posted_date", pd)) :
        t \in { Missing(<<>>), Given(<<"D","e","v">>) },
        c \in { Missing(<<>>), Given(<<"C","o">>) },
        sal \in { Missing(None), Given(Num(120)), Given(None),
                  Given(Text(<<"i","n","v","a","l","i","d">>)),
                  Given(Text(<<"1","2","0">>)) },
        pd \in { Missing(None), Given(Text(<<"2","0","2","4">>)), Given(Num(7)) } }

\* parse_job_listing(rawRecord) is called
parse_call ==
    /\ parsed = None
    /\ parsed' = IF ParseRaises(rawRecord)
                 THEN Text(<<"r","a","i","s","e","d">>)
                 ELSE Dict(parse_job_listing(rawRecord))
    /\ UNCHANGED <<rawRecord, queryVars, dedupeVars, rankVars, filterVars, fetchVars>>

\* a JobFetcher, and the record parse_job_listing is about to be given: a
\* dict, or a record that is a string
NormInit ==
    /\ rawRecord \in RawDictPool \cup { Text(<<"x">>) }
    /\ parsed = None
    /\ DedupeIdle
    /\ RankIdle
    /\ FilterIdle
    /\ FetchIdle
    /\ QueryIdle

NormNext == parse_call

SpecNormalize == NormInit /\ [][NormNext]_vars

\* C20: parse_job_listing never raises on a raw dict; a missing title or
\* company comes out as "", a missing salary or posted date comes out absent,
\* and a salary of a wrong type comes out as a number or absent, never as
\* the wrong-typed value
C20_NormalizeTotal ==
    (rawRecord.t = "dict" /\ parsed.t # "none") =>
        /\ parsed.t = "dict"
        /\ "title" \notin DOMAIN rawRecord.v => parsed.v.title = <<>>
        /\ "company" \notin DOMAIN rawRecord.v => parsed.v.company = <<>>
        /\ "salary" \notin DOMAIN rawRecord.v => Get(parsed.v, "salary", None).t = "none"
        /\ "posted_date" \notin DOMAIN rawRecord.v
               => Get(parsed.v, "posted_date", None).t = "none"
        /\ Get(parsed.v, "salary", None).t \in { "none", "num" }

----------------------------------------------------------------------------
(* A fetch run against job boards whose answers hold several records       *)

\* two records a board may send, each naming the board
RecordA(source) ==
    Dict([title |-> <<"D","e","v">>, company |-> <<"C","o">>, source |-> source])
RecordB(source) ==
    Dict([title |-> ML_ENGINEER, company |-> TECH_CORP, source |-> source])

\* what a board may answer with HTTP 200: no record, the two records in
\* either order, or a record followed by one that is a string
Answers(source) ==
    << <<>>,
       <<RecordA(source), RecordB(source)>>,
       <<RecordB(source), RecordA(source)>>,
       <<RecordA(source), Text(<<"x">>)>> >>

AnswerScriptPool ==
    { [src \in KnownSources |-> Envelope(src, Answers(src)[f[src]])] :
        f \in [KnownSources -> 1..4] }

\* JobFetcher(), fetch_jobs yet to be called, and the answers the boards
\* will give
AnswersInit ==
    /\ sources = <<"linkedin", "indeed", "glassdoor">>
    /\ session = "none"
    /\ fpc = "idle"
    /\ owns = FALSE
    /\ tasks = <<>>
    /\ errors = <<>>
    /\ deadlinePassed = FALSE
    /\ fetchRuns = 0
    /\ other = NoOther
    /\ keywords = <<"d","e","v">>
    /\ script \in { [on |-> TRUE, data |-> d] : d \in AnswerScriptPool }
    /\ DedupeIdle
    /\ RankIdle
    /\ FilterIdle
    /\ NormIdle

\* a fetch run in which every request is answered at once
AnswersNext ==
    \/ fetch_jobs_enter
    \/ aenter_raises
    \/ \E i \in 1..Len(tasks) : make_api_request(i)
    \/ fetch_all_sources_return
    \/ aexit

SpecAnswers == AnswersInit /\ [][AnswersNext]_vars

\* the listings of a list that name the source, in the order of the list
RECURSIVE BySource(_, _)
BySource(js, source) ==
    IF js = <<>> THEN <<>>
    ELSE IF Head(js).source = source THEN <<Head(js)>> \o BySource(Tail(js), source)
    ELSE BySource(Tail(js), source)

\* a can be had from b by leaving elements out
RECURSIVE IsSubseq(_, _)
IsSubseq(a, b) ==
    IF a = <<>> THEN TRUE
    ELSE IF b = <<>> THEN FALSE
    ELSE IF Head(a) = Head(b) THEN IsSubseq(Tail(a), Tail(b))
    ELSE IsSubseq(a, Tail(b))

\* the records the source answered with in this run
Answered(source) == _extract_jobs_from_response(script.data[source], source)

\* fetch_jobs has its aggregated output
Aggregated == fpc \in { "closing", "done" }

\* C21: in the aggregated output the listings of one source stand in the
\* order of the records of that source's response, whichever source call
\* completed first
C21_OrderWithinSource ==
    Aggregated =>
        \A src \in KnownSources :
            IsSubseq(BySource(returned, src), ParsedDicts(Answered(src)))

\* two sources have each contributed their two listings to the output
C21_Witness ==
    /\ fpc = "done"
    /\ Len(BySource(returned, "linkedin")) = 2
    /\ Len(BySource(returned, "glassdoor")) = 2
    /\ BySource(returned, "linkedin")[1].title # BySource(returned, "glassdoor")[1].title

\* C22: the aggregated output holds the listing of every record of a
\* source's response, or no listing of that source; a response with a
\* record that cannot be normalised contributes nothing
C22_AllOrNothing ==
    Aggregated =>
        \A src \in KnownSources :
            \/ BySource(returned, src) = <<>>
            \/ /\ \A k \in 1..Len(Answered(src)) : ~ParseRaises(Answered(src)[k])
               /\ BySource(returned, src) = ParsedDicts(Answered(src))

\* a source whose response held a good and a bad record contributed
\* nothing, next to a source that contributed both its listings
C22_Witness ==
    /\ fpc = "done"
    /\ \E i, j \in 1..Len(tasks) :
          /\ tasks[i].pc = "raised"
          /\ Len(Answered(tasks[i].source)) = 2
          /\ BySource(returned, tasks[i].source) = <<>>
          /\ Len(BySource(returned, tasks[j].source)) = 2

----------------------------------------------------------------------------
(* filter_jobs under criteria that reach each of the eight predicates      *)

\* listings that differ in skills, location and salary, and of two makes in
\* the fields the other five predicates read
EightJobPool ==
    { [ title |-> IF alt THEN <<"X">> ELSE <<"D","e","v">>,
        company |-> IF alt THEN <<"n","y">> ELSE <<"C","o">>,
        job_type |-> IF alt THEN <<"p","a","r","t">> ELSE <<"f","u","l","l">>,
        experience_years |-> IF alt THEN Num(3) ELSE Num(7),
        posted_date |-> IF alt THEN Date(NowDay - 1) ELSE Date(NowDay - 50),
        skills |-> sk, location |-> loc, salary |-> sal ] :
        alt \in BOOLEAN, sk \in { <<>>, <<PY>> },
        loc \in { <<"R","e","m","o","t","e">>, NY }, sal \in { None, Num(90) } }

\* the criteria in which the predicates numbered in S, and no other, have a
\* criteria field set
CriteriaFor(S) ==
    [ required_skills |-> IF 1 \in S THEN << <<"p","y">> >> ELSE <<>>,
      preferred_skills |-> <<>>,
      locations |-> <<>>,
      remote_only |-> 2 \in S,
      min_salary |-> IF 3 \in S THEN Num(100) ELSE None,
      max_salary |-> None,
      experience_min |-> None,
      experience_max |-> IF 4 \in S THEN Num(5) ELSE None,
      job_types |-> IF 5 \in S THEN << <<"P","a","r","t">> >> ELSE <<>>,
      company_blacklist |-> IF 6 \in S THEN << <<"c","o">> >> ELSE <<>>,
      company_whitelist |-> <<>>,
      posted_within_days |-> IF 7 \in S THEN Num(7) ELSE None,
      keywords |-> <<>>,
      exclude_keywords |-> IF 8 \in S THEN << <<"d","e","v">> >> ELSE <<>> ]

\* no criterion, one, or two at a time
EightCriteriaPool == { CriteriaFor(S) : S \in { T \in SUBSET (1..8) : Cardinality(T) <= 2 } }

EightInit ==
    /\ criteria \in EightCriteriaPool
    /\ fjobs \in SeqsUpTo(EightJobPool, MaxFilterJobs)
    /\ filteredIdx = <<>>
    /\ total_processed = 0
    /\ filtered_count = 0
    /\ filterRan = FALSE
    /\ filterRaised = FALSE
    /\ DedupeIdle
    /\ RankIdle
    /\ FetchIdle
    /\ QueryIdle
    /\ NormIdle

SpecEight == EightInit /\ [][FilterNext]_vars

\* the eight predicates, taken last to first
PassesAllEight(job, c) ==
    /\ _check_keywords(job, c)
    /\ _check_posting_date(job, c)
    /\ _check_company(job, c)
    /\ _check_job_type(job, c)
    /\ _check_experience(job, c)
    /\ _check_salary(job, c)
    /\ _check_location(job, c)
    /\ _check_required_skills(job, c)

\* a predicate whose criteria fields are all absent is satisfied
VacuousWhenAbsent(job, c) ==
    /\ c.required_skills = <<>> => _check_required_skills(job, c)
    /\ (~c.remote_only /\ c.locations = <<>>) => _check_location(job, c)
    /\ (c.min_salary = None /\ c.max_salary = None) => _check_salary(job, c)
    /\ (c.experience_min = None /\ c.experience_max = None) => _check_experience(job, c)
    /\ c.job_types = <<>> => _check_job_type(job, c)
    /\ (c.company_blacklist = <<>> /\ c.company_whitelist = <<>>) => _check_company(job, c)
    /\ c.posted_within_days = None => _check_posting_date(job, c)
    /\ (c.keywords = <<>> /\ c.exclude_keywords = <<>>) => _check_keywords(job, c)

\* C23: a filter_jobs call keeps a listing exactly when it passes all eight
\* predicates, in whatever order they are taken, a predicate without
\* criteria being satisfied; what it returns is a subsequence of its input,
\* in input order, and the input is left as it was
C23_KeptIffAllEight ==
    [][ (~filterRan /\ filterRan') =>
          /\ fjobs' = fjobs
          /\ \A k \in 1..(Len(filteredIdx') - 1) : filteredIdx'[k] < filteredIdx'[k + 1]
          /\ \A i \in 1..Len(fjobs) :
                /\ i \in Elems(filteredIdx') <=> PassesAllEight(fjobs[i], criteria)
                /\ VacuousWhenAbsent(fjobs[i], criteria) ]_vars

\* of two listings the first was dropped by the keyword predicate alone,
\* the last predicate, and the second kept
C23_Witness ==
    /\ filterRan
    /\ Len(fjobs) = 2
    /\ filteredIdx = <<2>>
    /\ criteria = CriteriaFor({ 8 })
    /\ ~_check_keywords(fjobs[1], criteria)

----------------------------------------------------------------------------
(* filter_jobs under salary bounds                                         *)

SalaryJobPool ==
    [ title : { <<"D","e","v">> }, salary : { None, Num(0), Num(90), Num(120) } ]

\* criteria that bound the salary only; a bound may be the number 0
SalaryCriteriaPool ==
    { [DefaultCriteria EXCEPT !.min_salary = lo, !.max_salary = hi] :
        lo \in { None, Num(0), Num(100) }, hi \in { None, Num(0), Num(100) } }

SalaryInit ==
    /\ criteria \in SalaryCriteriaPool
    /\ fjobs \in SeqsUpTo(SalaryJobPool, MaxFilterJobs)
    /\ filteredIdx = <<>>
    /\ total_processed = 0
    /\ filtered_count = 0
    /\ filterRan = FALSE
    /\ filterRaised = FALSE
    /\ DedupeIdle
    /\ RankIdle
    /\ FetchIdle
    /\ QueryIdle
    /\ NormIdle

SpecSalary == SalaryInit /\ [][FilterNext]_vars

\* the salary lies within every bound that is present, a bound of 0 included
WithinBounds(salary, c) ==
    /\ c.min_salary # None => salary.v >= c.min_salary.v
    /\ c.max_salary # None => salary.v <= c.max_salary.v

\* C24: with only salary bounds configured, a listing whose salary is
\* present is kept exactly when the salary is within every present bound,
\* a bound whose value is 0 included
C24_EveryBoundEnforced ==
    filterRan =>
        \A i \in 1..Len(fjobs) :
            fjobs[i].salary # None =>
                (i \in Elems(filteredIdx) <=> WithinBounds(fjobs[i].salary, criteria))

----------------------------------------------------------------------------
(* Claims about the delays of the retry loop                               *)

\* C25: a source call sleeping after an HTTP 429 waits retry_delay times the
\* number of the attempt that was just rate limited, and it sleeps only
\* when another attempt is to follow
C25_LinearBackoffBetweenAttempts ==
    \A i \in 1..Len(tasks) :
        (tasks[i].pc = "sleep" /\ tasks[i].last = "rate_limited") =>
            /\ tasks[i].delay = retry_delay * tasks[i].calls
            /\ tasks[i].calls < max_retries

----------------------------------------------------------------------------
(* The pipeline under salary bounds, on records with and without a salary  *)

\* a raw record without a salary key, and one with it
NoSalaryRecord == Dict([title |-> <<"X">>, company |-> <<"C","o">>])
WithSalaryRecord ==
    Dict([title |-> <<"D","e","v">>, company |-> <<"C","o">>, salary |-> Num(120)])

\* each board answers with one of the records, or none
SalaryAnswers == << <<>>, <<NoSalaryRecord>>, <<WithSalaryRecord>> >>

ComposeInit ==
    /\ sources = <<"linkedin", "indeed">>
    /\ session = "none"
    /\ fpc = "idle"
    /\ owns = FALSE
    /\ tasks = <<>>
    /\ errors = <<>>
    /\ deadlinePassed = FALSE
    /\ fetchRuns = 0
    /\ other = NoOther
    /\ keywords = <<"d","e","v">>
    /\ script \in { [on |-> TRUE,
                      data |-> [src \in KnownSources |-> Envelope(src, SalaryAnswers[f[src]])]] :
                     f \in [KnownSources -> 1..3] }
    /\ criteria \in { [DefaultCriteria EXCEPT !.min_salary = lo, !.max_salary = hi] :
                         lo \in { None, Num(100) }, hi \in { None, Num(100) } }
    /\ fjobs = <<>>
    /\ filteredIdx = <<>>
    /\ total_processed = 0
    /\ filtered_count = 0
    /\ filterRan = FALSE
    /\ filterRaised = FALSE
    /\ user_profile = ExampleProfile
    /\ rjobs = <<>>
    /\ rankInput = <<>>
    /\ rankedIdx = <<>>
    /\ rankRan = FALSE
    /\ DedupeIdle
    /\ NormIdle

SpecCompose == ComposeInit /\ [][PipelineNext]_vars

\* C26: filtering the listings the normaliser produced raises no error,
\* and under criteria with a salary bound set a listing made from a raw
\* record without salary is kept
C26_MissingSalaryKept ==
    /\ ~filterRaised
    /\ (filterRan /\ (criteria.min_salary # None \/ criteria.max_salary # None)) =>
           \A i \in 1..Len(fjobs) :
               fjobs[i].title = NoSalaryRecord.v.title => i \in Elems(filteredIdx)

----------------------------------------------------------------------------
(* A fetch run whose requests and sleeps all come to an end                *)

TerminationInit ==
    /\ sources \in { <<"linkedin">>, <<"indeed", "linkedin">> }
    /\ session = "none"
    /\ fpc = "idle"
    /\ owns = FALSE
    /\ tasks = <<>>
    /\ errors = <<>>
    /\ deadlinePassed = FALSE
    /\ fetchRuns = 0
    /\ other = NoOther
    /\ DedupeIdle
    /\ RankIdle
    /\ FilterIdle
    /\ QueryIdle
    /\ NormIdle

\* every session.get returns or fails within ClientTimeout(total=30), every
\* asyncio.sleep ends, and the event loop resumes a coroutine that can go on
FetchFairness ==
    /\ WF_vars(\E i \in 1..Len(tasks) : make_api_request(i))
    /\ WF_vars(\E i \in 1..Len(tasks) : wake(i))
    /\ WF_vars(fetch_all_sources_return)
    /\ WF_vars(aexit)

SpecFetchFair == TerminationInit /\ [][FetchNext]_vars /\ FetchFairness

\* C27: every fetch run that has started its source calls comes to its end:
\* fetch_jobs returns its list or raises
C27_RunTerminates == (fpc = "gathering") ~> RunEnded

\* a run has returned although one source used up its attempts and another
\* one raised
C27_Witness ==
    /\ fpc = "done"
    /\ \E i, j \in 1..Len(tasks) : Exhausted(tasks[i]) /\ tasks[j].pc = "raised"

----------------------------------------------------------------------------
(* fetch_jobs called again on the same JobFetcher                          *)

\* C28: whatever fetch_jobs calls came before on a JobFetcher used without an
\* enclosing context manager, a call issues its source requests on an open
\* session: after a call that opened and closed the session, the next call
\* opens a new one
C28_RequestsOnOpenSession ==
    (fpc = "gathering" /\ tasks # <<>>) => session = "open"

----------------------------------------------------------------------------
(* fetch_jobs over source lists that name an unknown job board             *)

\* configured source lists with a name _fetch_all_sources does not know,
\* before, between and after the ones it knows
UnknownSourcesPool ==
    { <<"monster", "linkedin">>, <<"indeed", "monster", "linkedin">>,
      <<"linkedin", "monster">> }

UnknownInit ==
    /\ sources \in UnknownSourcesPool
    /\ session = "none"
    /\ fpc = "idle"
    /\ owns = FALSE
    /\ tasks = <<>>
    /\ errors = <<>>
    /\ deadlinePassed = FALSE
    /\ fetchRuns = 0
    /\ other = NoOther
    /\ DedupeIdle
    /\ RankIdle
    /\ FilterIdle
    /\ QueryIdle
    /\ NormIdle

SpecUnknown == UnknownInit /\ [][FetchNext]_vars

\* C30: once the run has aggregated its results, the sources named by the
\* recorded errors are, call for call, the sources whose calls raised, also
\* when the configured list names unknown sources before known ones
C30_ErrorNamesFailedSource ==
    Aggregated =>
        LET failed == SelectSeq(tasks, LAMBDA tk : tk.pc = "raised")
        IN  errors = [k \in 1..Len(failed) |-> failed[k].source]

----------------------------------------------------------------------------
(* two fetch_jobs invocations in flight on one JobFetcher                  *)

\* the second invocation, up to the await of asyncio.gather: the same test
\* of self.session, on the attribute both invocations share
other_enter ==
    /\ other.fpc = "idle"
    /\ session' = (IF session = "none" THEN "open" ELSE session)
    /\ other' = [other EXCEPT !.fpc = "gathering", !.owns = (session = "none"),
                              !.tasks = BuildTasks(sources, 1)]
    /\ UNCHANGED <<queryVars, normVars, sources, fpc, owns, tasks, errors, deadlinePassed,
                   fetchRuns, dedupeVars, rankVars, filterVars>>

\* one attempt of task i of the second invocation, on self.session as it is
\* at that moment
other_request(i) ==
    /\ other.fpc = "gathering"
    /\ other.tasks[i].pc = "request"
    /\ LET tk == other.tasks[i]
       IN  IF session = "none"
           THEN other' = [other EXCEPT !.tasks[i] = ReturnEmpty(tk, tk.calls, "no_session")]
           ELSE IF session = "closed"
           THEN other' = [other EXCEPT !.tasks[i] =
                             ReturnEmpty(tk, tk.calls + 1, "session_closed")]
           ELSE IF script.on
           THEN other' = [other EXCEPT !.tasks[i] =
                             AfterRequest(tk, "ok", script.data[tk.source])]
           ELSE \E kind \in ResponseKinds :
                  \E data \in (IF kind = "ok" THEN DataPool(tk.source) ELSE { <<>> }) :
                     other' = [other EXCEPT !.tasks[i] = AfterRequest(tk, kind, data)]
    /\ UNCHANGED <<queryVars, normVars, sources, session, fpc, owns, tasks, errors,
                   deadlinePassed, fetchRuns, dedupeVars, rankVars, filterVars>>

\* asyncio.sleep of task i of the second invocation is over
other_wake(i) ==
    /\ other.fpc = "gathering"
    /\ other.tasks[i].pc = "sleep"
    /\ LET tk == other.tasks[i]
       IN  IF LoopEnds(tk.attempt + 1)
           THEN other' = [other EXCEPT !.tasks[i] = ReturnEmpty(tk, tk.calls, tk.last)]
           ELSE other' = [other EXCEPT !.tasks[i].pc = "request",
                                       !.tasks[i].attempt = tk.attempt + 1,
                                       !.tasks[i].delay = 0]
    /\ UNCHANGED <<queryVars, normVars, sources, session, fpc, owns, tasks, errors,
                   deadlinePassed, fetchRuns, dedupeVars, rankVars, filterVars>>

\* gather of the second invocation has every result: it aggregates its own
\* all_jobs, stores it in the shared self.jobs and returns it
other_return ==
    /\ other.fpc = "gathering"
    /\ \A i \in 1..Len(other.tasks) : TaskDone(other.tasks[i])
    /\ jobs' = AllJobs(other.tasks, 1)
    /\ other' = [other EXCEPT !.returned = AllJobs(other.tasks, 1),
                              !.errors = LoggedErrors(other.tasks, sources, 1),
                              !.fpc = AfterGather(other.tasks, other.owns)]
    /\ UNCHANGED <<queryVars, normVars, sources, session, fpc, owns, tasks, errors,
                   deadlinePassed, fetchRuns, returned, prevJobs, dedupeRuns, rankVars,
                   filterVars>>

\* __aexit__ of the second invocation, when it is the one that entered
\* `async with self`
other_aexit ==
    /\ other.fpc = "closing"
    /\ session' = SessionAfterExit(session)
    /\ other' = [other EXCEPT !.fpc = "done"]
    /\ UNCHANGED <<queryVars, normVars, sources, fpc, owns, tasks, errors, deadlinePassed,
                   fetchRuns, dedupeVars, rankVars, filterVars>>

\* one job board, so that two invocations and all their interleavings fit
ConcurrentInit ==
    /\ sources = <<"linkedin">>
    /\ session = "none"
    /\ fpc = "idle"
    /\ owns = FALSE
    /\ tasks = <<>>
    /\ errors = <<>>
    /\ deadlinePassed = FALSE
    /\ fetchRuns = 0
    /\ other = NoOther
    /\ DedupeIdle
    /\ RankIdle
    /\ FilterIdle
    /\ QueryIdle
    /\ NormIdle

ConcurrentNext ==
    \/ fetch_jobs_enter
    \/ aenter_raises
    \/ \E i \in 1..Len(tasks) : make_api_request(i)
    \/ \E i \in 1..Len(tasks) : wake(i)
    \/ fetch_all_sources_return
    \/ aexit
    \/ other_enter
    \/ \E i \in 1..Len(other.tasks) : other_request(i)
    \/ \E i \in 1..Len(other.tasks) : other_wake(i)
    \/ other_return
    \/ other_aexit

SpecConcurrent == ConcurrentInit /\ [][ConcurrentNext]_vars

\* an invocation at position pc awaits gather with a source call of ts not
\* yet over
InFlight(pc, ts) == pc = "gathering" /\ \E i \in 1..Len(ts) : ~TaskDone(ts[i])

\* C29: of two fetch_jobs invocations running concurrently on one JobFetcher,
\* each that has returned handed back the aggregation of its own source
\* calls, and no step closes the session while an invocation still has
\* source requests in flight
C29_SessionNotClosedInFlight ==
    /\ []((fpc \in { "closing", "done" } /\ fetchRuns > 0) => returned = AllJobs(tasks, 1))
    /\ [](other.fpc \in { "closing", "done" } => other.returned = AllJobs(other.tasks, 1))
    /\ [][(session = "open" /\ session' = "closed") =>
             ~(InFlight(fpc, tasks) \/ InFlight(other.fpc, other.tasks))]_vars

============================================================================
